---- MODULE Spec2Model ----
(***************************************************************************)
(* Model of the compliance-fixture generator (src/main.go, the revision    *)
(* starting at line 294): loadTests walks the source tree, generate        *)
(* processes every case of every loaded Test (module parsing, entry-point  *)
(* derivation, plan compilation, evaluation of the expected result, plan   *)
(* decoding) and writes one JSON file per source file.                     *)
(*                                                                         *)
(* Strings are sequences of one-character strings, so that TrimPrefix,     *)
(* ReplaceAll, Split and sort.Strings are computed as the Go code computes *)
(* them.  The policy engine (compile.Build, topdown.Query.Run, ast.JSON)   *)
(* and the file system (MarshalIndent, MkdirAll, WriteFile) are            *)
(* collaborators whose outcome is chosen nondeterministically at each call.*)
(* Two runs of generate over the same tree are stepped side by side: they  *)
(* share the collaborators' outcomes and differ only in the order in which *)
(* Go ranges over the modules map.                                         *)
(***************************************************************************)
EXTENDS Integers, Sequences, FiniteSets, TLC

\* Bounds of the explored input: files in the source tree and test cases in
\* the whole tree.
MaxFiles == 2
MaxCases == 2

----------------------------------------------------------------------------
\* String literals

S_dataDot == <<"d", "a", "t", "a", ".">>
S_dot == <<".">>
S_slash == <<"/">>
S_underscore == <<"_">>
S_yaml == <<".", "y", "a", "m", "l">>
S_json == <<".", "j", "s", "o", "n">>
S_mod == <<"m", "o", "d", "_">>
S_empty == <<>>

\* The characters of the model in byte order (Go compares strings bytewise).
Alphabet ==
    <<".", "/", "0", "1", "2", "3", "4", "5", "6", "7", "8", "9", "_",
      "a", "b", "c", "d", "e", "f", "g", "h", "i", "j", "k", "l", "m",
      "n", "o", "p", "q", "r", "s", "t", "u", "v", "w", "x", "y", "z">>

Ord(c) == CHOOSE i \in 1..Len(Alphabet) : Alphabet[i] = c

Digits == <<"0", "1", "2", "3", "4", "5", "6", "7", "8", "9">>

----------------------------------------------------------------------------
\* Go standard library: strings, fmt, sort

HasPrefix(s, p) == Len(s) >= Len(p) /\ SubSeq(s, 1, Len(p)) = p

HasSuffix(s, p) == Len(s) >= Len(p) /\ SubSeq(s, Len(s) - Len(p) + 1, Len(s)) = p

TrimPrefixAll(s, p) ==
    LET RECURSIVE Strip(_)
        Strip(x) == IF HasPrefix(x, p) THEN Strip(SubSeq(x, Len(p) + 1, Len(x))) ELSE x
    IN Strip(s)

\* strings.TrimPrefix: s without the leading p, or s itself.
TrimPrefix(s, p) == IF HasPrefix(s, p) THEN SubSeq(s, Len(p) + 1, Len(s)) ELSE s

\* strings.ReplaceAll for a non-empty old: every non-overlapping occurrence,
\* scanning from the left.
RECURSIVE ReplaceAll(_, _, _)
ReplaceAll(s, old, new) ==
    IF Len(s) < Len(old) THEN s
    ELSE IF HasPrefix(s, old)
         THEN new \o ReplaceAll(SubSeq(s, Len(old) + 1, Len(s)), old, new)
         ELSE <<Head(s)>> \o ReplaceAll(Tail(s), old, new)

\* strings.Split(s, sep) for a one-character sep: always at least one segment.
RECURSIVE SplitAcc(_, _, _)
SplitAcc(s, sep, cur) ==
    IF s = <<>> THEN <<cur>>
    ELSE IF <<Head(s)>> = sep
         THEN <<cur>> \o SplitAcc(Tail(s), sep, <<>>)
         ELSE SplitAcc(Tail(s), sep, Append(cur, Head(s)))

Split(s, sep) == SplitAcc(s, sep, <<>>)

\* fmt.Sprintf("%d", n) for 0 <= n < 100.
Itoa(n) == IF n < 10 THEN <<Digits[n + 1]>> ELSE <<Digits[(n \div 10) + 1], Digits[(n % 10) + 1]>>

\* fmt.Sprintf("%s/%s", a, b)
JoinPath(a, b) == a \o S_slash \o b

\* Bytewise string comparison a < b.
RECURSIVE StrLess(_, _)
StrLess(a, b) ==
    IF b = <<>> THEN FALSE
    ELSE IF a = <<>> THEN TRUE
    ELSE IF Head(a) = Head(b) THEN StrLess(Tail(a), Tail(b))
    ELSE Ord(Head(a)) < Ord(Head(b))

RECURSIVE InsertSorted(_, _)
InsertSorted(k, sorted) ==
    IF sorted = <<>> THEN <<k>>
    ELSE IF StrLess(Head(sorted), k)
         THEN <<Head(sorted)>> \o InsertSorted(k, Tail(sorted))
         ELSE <<k>> \o sorted

\* sort.Strings(keys)
RECURSIVE SortStrings(_)
SortStrings(keys) ==
    IF keys = <<>> THEN <<>> ELSE InsertSorted(Head(keys), SortStrings(Tail(keys)))

----------------------------------------------------------------------------
\* The source tree: test-definition files and their cases

Null == [t |-> "null"]

\* Policy module texts, by what ast.ParseModule makes of them: the package
\* path as Package.Path.String() prints it, the number of rules, and whether
\* the text parses at all.
ModAllow ==
    [pkg |-> <<"d", "a", "t", "a", ".", "e", "x", "a", "m", "p", "l", "e", ".", "a", "l", "l", "o", "w">>,
     rules |-> 1, parses |-> TRUE]

ModDataX ==
    [pkg |-> <<"d", "a", "t", "a", ".", "d", "a", "t", "a", ".", "x">>, rules |-> 2, parses |-> TRUE]

ModLib ==
    [pkg |-> <<"d", "a", "t", "a", ".", "l", "i", "b">>, rules |-> 0, parses |-> TRUE]

ModBroken ==
    [pkg |-> <<"d", "a", "t", "a", ".", "b", "r", "o", "k", "e", "n">>, rules |-> 0, parses |-> FALSE]

ModP(i) == [pkg |-> <<"d", "a", "t", "a", ".", "p">> \o Itoa(i), rules |-> 1, parses |-> TRUE]

\* Eleven modules: mod_10 sorts between mod_1 and mod_2.
ManyModules == [i \in 1..11 |-> ModP(i - 1)]

TC(mods, wantError, wantErrorCode, inputTerm) ==
    [Modules |-> mods, WantError |-> wantError, WantErrorCode |-> wantErrorCode,
     InputTerm |-> inputTerm]

\* The test cases a file may hold.  WantError / WantErrorCode: whether the
\* pointer is non-nil.  InputTerm: "nil", "ok" (parses) or "bad" (does not).
CaseSet ==
    { TC(<<ModAllow>>, FALSE, FALSE, "nil"),
      TC(<<ModDataX>>, TRUE, FALSE, "nil"),
      TC(<<ModLib, ModAllow>>, FALSE, TRUE, "ok"),
      TC(<<ModAllow>>, FALSE, FALSE, "bad"),
      TC(<<>>, FALSE, FALSE, "nil"),
      TC(<<ModBroken>>, FALSE, FALSE, "nil"),
      TC(ManyModules, FALSE, FALSE, "ok") }

\* Paths of the source tree in the order filepath.Walk visits them.
SrcPaths ==
    << <<"t", "/", "a", ".", "y", "a", "m", "l">>,
       <<"t", "/", "g", "/", "c", ".", "y", "a", "m", "l", ".", "d", ".", "y", "a", "m", "l">>,
       <<"t", "/", "g", "/", "z", ".", "y", "a", "m", "l">>,
       <<"t", "/", "h", "/", "g", "/", "z", ".", "y", "a", "m", "l">> >>

dstPath == <<"o", "u", "t">>

\* The lists of at most n cases.
CaseLists(n) == UNION { [1..m -> CaseSet] : m \in 0..n }

\* What a file holds: a list of at most n cases, or something ReadFile or
\* Unmarshal rejects.
FileContents(n) ==
    [readable : {TRUE}, cases : CaseLists(n)] \cup {[readable |-> FALSE, cases |-> <<>>]}

\* The contents of k files that hold at most n cases together.
RECURSIVE FileSeqs(_, _)
FileSeqs(k, n) ==
    IF k = 0 THEN {<<>>}
    ELSE UNION { {<<f>> \o rest : rest \in FileSeqs(k - 1, n - Len(f.cases))} : f \in FileContents(n) }

\* The source trees: up to MaxFiles files at consecutive paths of SrcPaths,
\* holding up to MaxCases cases together.
Trees ==
    UNION { UNION { { [i \in 1..k |-> [path |-> SrcPaths[s + i - 1],
                                      readable |-> c[i].readable,
                                      cases |-> c[i].cases]] : c \in FileSeqs(k, MaxCases) }
                    : s \in 1..(Len(SrcPaths) - k + 1) }
            : k \in 1..MaxFiles }

----------------------------------------------------------------------------
\* State

VARIABLES
    disk,       \* the source tree under srcPath
    pc,         \* position of the run
    fi,         \* index of the Test the outer loop of generate is at
    ci,         \* index of the case the inner loop of generate is at
    gen,        \* the run: loadTests' result, the counters, generate's locals, the files written
    twin,       \* a second run over the same tree, stepped side by side
    trace,      \* per case, the branch of the loop body that ended it
    emitTrace,  \* per file, the branch of the write block that ended it
    obs         \* per case, what compiler.Build and eval returned for it

vars == <<disk, pc, fi, ci, gen, twin, trace, emitTrace, obs>>

successCount == gen.successCount

failureCount == gen.failureCount

\* Nothing has been called for the case yet.
ObsInit == [built |-> "none", plans |-> <<>>, evald |-> "none", results |-> 0]

RunInit ==
    [tests |-> <<>>, successCount |-> 0, failureCount |-> 0, modFiles |-> <<>>,
     packageNames |-> <<>>, PlanModules |-> <<>>, writes |-> <<>>]

Init ==
    /\ disk \in Trees
    /\ pc = "load"
    /\ fi = 0
    /\ ci = 0
    /\ gen = RunInit
    /\ twin = RunInit
    /\ trace = [i \in 1..Len(disk) |-> [j \in 1..Len(disk[i].cases) |-> "none"]]
    /\ emitTrace = [i \in 1..Len(disk) |-> "none"]
    /\ obs = [i \in 1..Len(disk) |-> [j \in 1..Len(disk[i].cases) |-> ObsInit]]

----------------------------------------------------------------------------
\* loadTests

\* util.Unmarshal into a Test, then the stamping loop: every case gets its
\* Filename, and the Test its filename, inside the loop over the cases.
LoadedTest(path, cases) ==
    [filename |-> IF Len(cases) = 0 THEN S_empty ELSE path,
     Cases |-> [j \in 1..Len(cases) |->
                  [Filename |-> path,
                   Modules |-> cases[j].Modules,
                   WantError |-> cases[j].WantError,
                   WantErrorCode |-> cases[j].WantErrorCode,
                   InputTerm |-> cases[j].InputTerm,
                   EntryPoints |-> <<>>,
                   Plan |-> Null,
                   WantPlanResult |-> Null]]]

WalkSkipsErrors(f) == FALSE

\* Whether the walk callback returns an error for the file.
WalkFails(f) == ~f.readable

AppendTest(g, f) == [g EXCEPT !.tests = Append(@, LoadedTest(f.path, f.cases))]

\* One call of the walk callback: the next file is read and appended, or the
\* walk stops with its error and loadTests panics.
LoadFile ==
    /\ pc = "load"
    /\ Len(gen.tests) < Len(disk)
    /\ LET f == disk[Len(gen.tests) + 1] IN
         IF WalkFails(f)
         THEN /\ pc' = "panic"
              /\ UNCHANGED <<gen, twin>>
         ELSE /\ pc' = "load"
              /\ gen' = AppendTest(gen, f)
              /\ twin' = AppendTest(twin, f)
    /\ UNCHANGED <<disk, fi, ci, trace, emitTrace, obs>>

\* Where the loops of generate stand when the outer loop reaches Test i.
FilePc(tests, i) ==
    IF i > Len(tests) THEN "summary"
    ELSE IF Len(tests[i].Cases) = 0 THEN "emit" ELSE "derive"

\* loadTests returns and the outer loop of generate starts.
LoadDone ==
    /\ pc = "load"
    /\ Len(gen.tests) = Len(disk)
    /\ fi' = 1
    /\ ci' = 1
    /\ pc' = FilePc(gen.tests, 1)
    /\ UNCHANGED <<disk, gen, twin, trace, emitTrace, obs>>

----------------------------------------------------------------------------
\* getModuleFiles, createQuery, eval

\* fmt.Sprintf("mod_%d", i)
ModKey(i) == S_mod \o Itoa(i)

\* The map generate builds from tc.Modules: key mod_i for the i-th module.
ModulesMap(mods) ==
    [k \in {ModKey(i - 1) : i \in 1..Len(mods)} |->
        mods[CHOOSE i \in 1..Len(mods) : ModKey(i - 1) = k]]

Rotate(q, r) == [i \in 1..Len(q) |-> q[((i + r - 1) % Len(q)) + 1]]

Reverse(q) == [i \in 1..Len(q) |-> q[Len(q) + 1 - i]]

\* Orders in which `for k := range src` may deliver the keys of the map: Go
\* leaves the order unspecified.  The insertion order, its rotation by one,
\* and the reversals of both (every order, for maps of up to two keys).
RangeOrders(n) ==
    LET base == [i \in 1..n |-> ModKey(i - 1)] IN
    IF n = 0 THEN {<<>>}
    ELSE {base, Rotate(base, 1), Reverse(base), Reverse(Rotate(base, 1))}

\* The keys as collected by the range loop, left in the order the map gave them.
KeysUnsorted(order) == order

\* The keys as collected by the range loop, then sort.Strings.
SortedKeys(order) == SortStrings(order)

\* ast.ParseModule on each key in turn: a panic on the first text that does
\* not parse, otherwise one ModuleFile per key.
getModuleFiles(src, order) ==
    LET keys == SortedKeys(order) IN
    [panic |-> \E i \in 1..Len(keys) : ~src[keys[i]].parses,
     modules |-> [i \in 1..Len(keys) |->
                    [Path |-> keys[i],
                     Package |-> src[keys[i]].pkg,
                     Rules |-> src[keys[i]].rules]]]

EntryPointStripsEveryRoot(pkg) == ReplaceAll(TrimPrefixAll(pkg, S_dataDot), S_dot, S_slash)

\* strings.ReplaceAll(strings.TrimPrefix(pkg, "data."), ".", "/")
EntryPoint(pkg) == ReplaceAll(TrimPrefix(pkg, S_dataDot), S_dot, S_slash)

\* The loop over modFiles: modules without rules are skipped.
RECURSIVE PackageNames(_)
PackageNames(modFiles) ==
    IF modFiles = <<>> THEN <<>>
    ELSE IF Head(modFiles).Rules = 0
         THEN PackageNames(Tail(modFiles))
         ELSE <<Head(modFiles).Package>> \o PackageNames(Tail(modFiles))

EntryPoints(packageNames) == [i \in 1..Len(packageNames) |-> EntryPoint(packageNames[i])]

QueryVarBelowRoot(pkg) == ReplaceAll(TrimPrefix(pkg, S_dataDot), S_dot, S_underscore)

\* The variable of the expression createQuery builds for a package.
QueryVar(pkg) == ReplaceAll(pkg, S_dot, S_underscore)

\* One expression `<var> = <pkg>` per package name.
createQuery(packageNames) ==
    [i \in 1..Len(packageNames) |-> [var |-> QueryVar(packageNames[i]), ref |-> packageNames[i]]]

\* What the engine does for one call of eval: whether the query compiler
\* rejects the query, and what Run returns (an error, a number of results),
\* and whether ast.JSON fails on a bound term.
EvalOutcomes == [compileErr : BOOLEAN, runErr : BOOLEAN, qrs : 0..2, jsonErr : BOOLEAN]

ReturnsRunErrAlways(tc, runErr) == runErr

\* Whether eval passes the error of Run on to its caller.
ReturnsRunErr(tc, runErr) == runErr /\ ~tc.WantErrorCode /\ ~tc.WantError

\* eval: a panic (ast.MustParseTerm on an input term that does not parse), an
\* error, or the result set, one map per query result keyed by the query's
\* variables.
eval(packageNames, tc, ev) ==
    LET q == createQuery(packageNames)
        result == [t |-> "map", keys |-> {q[i].var : i \in 1..Len(q)}]
    IN
    IF ev.compileErr THEN [panic |-> FALSE, err |-> TRUE, resultSet |-> <<>>]
    ELSE IF tc.InputTerm = "bad" THEN [panic |-> TRUE, err |-> FALSE, resultSet |-> <<>>]
    ELSE IF ReturnsRunErr(tc, ev.runErr) THEN [panic |-> FALSE, err |-> TRUE, resultSet |-> <<>>]
    ELSE IF ev.qrs > 1 THEN [panic |-> FALSE, err |-> TRUE, resultSet |-> <<>>]
    ELSE IF ev.qrs > 0 /\ Len(q) > 0 /\ ev.jsonErr THEN [panic |-> FALSE, err |-> TRUE, resultSet |-> <<>>]
    ELSE [panic |-> FALSE, err |-> FALSE, resultSet |-> [i \in 1..ev.qrs |-> result]]

----------------------------------------------------------------------------
\* generate

CurrentCase == gen.tests[fi].Cases[ci]

\* The loop body's locals go out of scope when an iteration ends.
EndCase(g) == [g EXCEPT !.modFiles = <<>>, !.packageNames = <<>>, !.PlanModules = <<>>]

FailCaseUncounted(g) == EndCase(g)

\* failureCount++ ; continue
FailCase(g) == EndCase([g EXCEPT !.failureCount = @ + 1])

\* `continue` without counting, as for a case without modules.
SkipCase(g) == EndCase(g)

NextCaseBreaks(tag) ==
    /\ trace' = [trace EXCEPT ![fi][ci] = tag]
    /\ pc' = "emit"
    /\ ci' = ci

\* The inner loop moves to the next case, or ends and the file is written.
NextCase(tag) ==
    /\ trace' = [trace EXCEPT ![fi][ci] = tag]
    /\ IF ci < Len(gen.tests[fi].Cases)
       THEN pc' = "derive" /\ ci' = ci + 1
       ELSE pc' = "emit" /\ ci' = ci

Panic(tag) ==
    /\ trace' = [trace EXCEPT ![fi][ci] = tag]
    /\ pc' = "panic"
    /\ ci' = ci

\* packageNames, entryPoints and tc.EntryPoints from the parsed modules.
SetEntryPoints(g, modFiles) ==
    [g EXCEPT !.modFiles = modFiles,
              !.packageNames = PackageNames(modFiles),
              !.tests[fi].Cases[ci].EntryPoints = EntryPoints(PackageNames(modFiles))]

\* The head of the loop body: the modules map, getModuleFiles, the check for
\* an empty list, the entry points.
Derive ==
    /\ pc = "derive"
    /\ LET modules == ModulesMap(CurrentCase.Modules) IN
       \E o1, o2 \in RangeOrders(Len(CurrentCase.Modules)) :
         LET r1 == getModuleFiles(modules, o1)
             r2 == getModuleFiles(modules, o2)
         IN
         IF r1.panic
         THEN Panic("parsePanic") /\ UNCHANGED <<gen, twin>>
         ELSE IF Len(r1.modules) = 0
         THEN NextCase("noModules") /\ gen' = SkipCase(gen) /\ twin' = SkipCase(twin)
         ELSE /\ gen' = SetEntryPoints(gen, r1.modules)
              /\ twin' = SetEntryPoints(twin, r2.modules)
              /\ pc' = "build"
              /\ UNCHANGED <<ci, trace>>
    /\ UNCHANGED <<disk, fi, emitTrace, obs>>

\* What compiler.Build leaves behind: an error, or the bundle's plan modules
\* (their raw bytes: a JSON object, the JSON null, or no JSON at all).
BuildResults ==
    [err : BOOLEAN,
     plans : {<<>>, <<"object">>, <<"null">>, <<"invalid">>, <<"object", "object">>}]

NeedsEvalUnlessWantError(tc) == ~tc.WantError

\* The guard of the evaluation block: neither a wanted error nor a wanted
\* error code.
NeedsEval(tc) == ~tc.WantError /\ ~tc.WantErrorCode

\* compiler.Build and the plan count.
Build ==
    /\ pc = "build"
    /\ \E res \in BuildResults :
         /\ obs' = [obs EXCEPT ![fi][ci].built = IF res.err THEN "err" ELSE "ok",
                               ![fi][ci].plans = IF res.err THEN <<>> ELSE res.plans]
         /\ IF res.err
            THEN NextCase("buildErr") /\ gen' = FailCase(gen) /\ twin' = FailCase(twin)
            ELSE IF Len(res.plans) # 1
            THEN NextCase("planCount") /\ gen' = FailCase(gen) /\ twin' = FailCase(twin)
            ELSE /\ gen' = [gen EXCEPT !.PlanModules = res.plans]
                 /\ twin' = [twin EXCEPT !.PlanModules = res.plans]
                 /\ pc' = IF NeedsEval(CurrentCase) THEN "eval" ELSE "decode"
                 /\ UNCHANGED <<ci, trace>>
    /\ UNCHANGED <<disk, fi, emitTrace>>

SetWantPlanResult(g, r) == [g EXCEPT !.tests[fi].Cases[ci].WantPlanResult = r.resultSet[1]]

\* The evaluation block: eval, its error, the result count.
Eval ==
    /\ pc = "eval"
    /\ \E ev \in EvalOutcomes :
         LET r == eval(gen.packageNames, CurrentCase, ev)
             r2 == eval(twin.packageNames, CurrentCase, ev)
         IN
         /\ obs' = [obs EXCEPT ![fi][ci].evald = IF r.panic THEN "panic" ELSE IF r.err THEN "err" ELSE "ok",
                               ![fi][ci].results = Len(r.resultSet)]
         /\ IF r.panic
            THEN Panic("evalPanic") /\ UNCHANGED <<gen, twin>>
            ELSE IF r.err
            THEN NextCase("evalErr") /\ gen' = FailCase(gen) /\ twin' = FailCase(twin)
            ELSE IF Len(r.resultSet) # 1
            THEN NextCase("resultCount") /\ gen' = FailCase(gen) /\ twin' = FailCase(twin)
            ELSE /\ gen' = SetWantPlanResult(gen, r)
                 /\ twin' = SetWantPlanResult(twin, r2)
                 /\ pc' = "decode"
                 /\ UNCHANGED <<ci, trace>>
    /\ UNCHANGED <<disk, fi, emitTrace>>

\* json.Unmarshal of a plan module's raw bytes into an interface{}.
Unmarshal(raw) ==
    IF raw = "invalid" THEN [err |-> TRUE, value |-> Null]
    ELSE IF raw = "null" THEN [err |-> FALSE, value |-> Null]
    ELSE [err |-> FALSE, value |-> [t |-> "object"]]

SucceedAndFail(g, plan) ==
    EndCase([g EXCEPT !.tests[fi].Cases[ci].Plan = plan, !.successCount = @ + 1, !.failureCount = @ + 1])

\* tc.Plan = plan ; successCount++
Succeed(g, plan) ==
    EndCase([g EXCEPT !.tests[fi].Cases[ci].Plan = plan, !.successCount = @ + 1])

\* The plan is decoded and attached, and the case counted as a success.
Decode ==
    /\ pc = "decode"
    /\ LET d == Unmarshal(gen.PlanModules[1]) IN
         IF d.err
         THEN NextCase("decodeErr") /\ gen' = FailCase(gen) /\ twin' = FailCase(twin)
         ELSE IF d.value = Null
         THEN NextCase("planNil") /\ gen' = FailCase(gen) /\ twin' = FailCase(twin)
         ELSE NextCase("success") /\ gen' = Succeed(gen, d.value) /\ twin' = Succeed(twin, d.value)
    /\ UNCHANGED <<disk, fi, emitTrace, obs>>

\* json.MarshalIndent(t): filename is unexported, the cases are serialized.
Marshal(t) == [cases |-> t.Cases]

\* tPath[len(tPath)-2] under dstPath
FolderPath(tPath) == JoinPath(dstPath, tPath[Len(tPath) - 1])

\* strings.ReplaceAll(tPath[len(tPath)-1], ".yaml", ".json")
TcFileName(tPath) == ReplaceAll(tPath[Len(tPath)], S_yaml, S_json)

\* The path writeWile writes to.
DestPath(filename) ==
    LET tPath == Split(filename, S_slash) IN JoinPath(FolderPath(tPath), TcFileName(tPath))

\* Whether tPath[len(tPath)-2] is out of range.
IndexPanics(filename) == Len(Split(filename, S_slash)) < 2

WriteFile(g, t) == [g EXCEPT !.writes = Append(@, [path |-> DestPath(t.filename), data |-> Marshal(t)])]

CountFailure(g) == [g EXCEPT !.failureCount = @ + 1]

\* What the marshalling and the file system do for one file.
IOOutcomes == {"ok", "marshalErr", "mkdirErr", "writeErr"}

\* The tail of the outer loop body: marshal, destination, MkdirAll, writeWile.
Emit ==
    /\ pc = "emit"
    /\ \E io \in IOOutcomes :
         LET t == gen.tests[fi] IN
         IF io = "marshalErr"
         THEN /\ gen' = CountFailure(gen) /\ twin' = CountFailure(twin)
              /\ emitTrace' = [emitTrace EXCEPT ![fi] = "marshalErr"]
              /\ fi' = fi + 1 /\ ci' = 1 /\ pc' = FilePc(gen.tests, fi + 1)
         ELSE IF IndexPanics(t.filename)
         THEN /\ emitTrace' = [emitTrace EXCEPT ![fi] = "indexPanic"]
              /\ pc' = "panic"
              /\ UNCHANGED <<gen, twin, fi, ci>>
         ELSE IF io = "mkdirErr"
         THEN /\ emitTrace' = [emitTrace EXCEPT ![fi] = "mkdirPanic"]
              /\ pc' = "panic"
              /\ UNCHANGED <<gen, twin, fi, ci>>
         ELSE IF io = "writeErr"
         THEN /\ gen' = CountFailure(gen) /\ twin' = CountFailure(twin)
              /\ emitTrace' = [emitTrace EXCEPT ![fi] = "writeErr"]
              /\ fi' = fi + 1 /\ ci' = 1 /\ pc' = FilePc(gen.tests, fi + 1)
         ELSE /\ gen' = WriteFile(gen, t) /\ twin' = WriteFile(twin, twin.tests[fi])
              /\ emitTrace' = [emitTrace EXCEPT ![fi] = "written"]
              /\ fi' = fi + 1 /\ ci' = 1 /\ pc' = FilePc(gen.tests, fi + 1)
    /\ UNCHANGED <<disk, trace, obs>>

\* The final tally is printed.
Summary ==
    /\ pc = "summary"
    /\ pc' = "done"
    /\ UNCHANGED <<disk, fi, ci, gen, twin, trace, emitTrace, obs>>

Next ==
    \/ LoadFile
    \/ LoadDone
    \/ Derive
    \/ Build
    \/ Eval
    \/ Decode
    \/ Emit
    \/ Summary

Spec == Init /\ [][Next]_vars

TypeOK ==
    /\ pc \in {"load", "derive", "build", "eval", "decode", "emit", "summary", "done", "panic"}
    /\ gen.successCount \in Nat
    /\ gen.failureCount \in Nat

----------------------------------------------------------------------------
\* Properties

\* Positions <<i, j>> of the loaded cases.
AllCases == {<<i, j>> \in (1..Len(gen.tests)) \X (1..MaxCases + 1) : j <= Len(gen.tests[i].Cases)}

CaseAt(p) == gen.tests[p[1]].Cases[p[2]]

TagAt(p) == trace[p[1]][p[2]]

ObsAt(p) == obs[p[1]][p[2]]

Wanted(tc) == tc.WantError \/ tc.WantErrorCode

FailTags == {"buildErr", "planCount", "evalErr", "resultCount", "decodeErr", "planNil"}

\* C1: for a case that declares a wanted error or a wanted error code, eval
\* is never called, and once the case is processed its want_plan_result is
\* null, while its plan is non-null whenever the compiler produced exactly
\* one plan module that decodes to a plan.
C1_WantedErrorSkipsEval ==
    \A p \in AllCases :
        Wanted(CaseAt(p)) =>
            /\ ObsAt(p).evald = "none"
            /\ TagAt(p) # "none" =>
                 /\ CaseAt(p).WantPlanResult = Null
                 /\ (ObsAt(p).built = "ok" /\ ObsAt(p).plans = <<"object">>) => CaseAt(p).Plan # Null

C1_Witness ==
    \E p \in AllCases :
        /\ CaseAt(p).WantErrorCode
        /\ TagAt(p) = "success"
        /\ CaseAt(p).Plan # Null
        /\ CaseAt(p).WantPlanResult = Null

\* What C2 says of the cases without a wanted error, apart from crashes: a
\* success has exactly one plan module and exactly one result set, and any
\* other plan count, any other result count or an evaluation error leaves
\* the case marked as failed.
C2_OutcomeMatchesCounts ==
    \A p \in AllCases :
        ~Wanted(CaseAt(p)) =>
            /\ TagAt(p) = "success" =>
                 /\ ObsAt(p).built = "ok" /\ Len(ObsAt(p).plans) = 1
                 /\ ObsAt(p).evald = "ok" /\ ObsAt(p).results = 1
            /\ (ObsAt(p).built = "ok" /\ Len(ObsAt(p).plans) # 1) => TagAt(p) = "planCount"
            /\ ObsAt(p).evald = "err" => TagAt(p) = "evalErr"
            /\ (ObsAt(p).evald = "ok" /\ ObsAt(p).results # 1) => TagAt(p) = "resultCount"

\* A step that marks the current case as failed counts one failure and
\* moves on to the next case of the file, or to the writing of the file.
FailedStepContinues ==
    /\ failureCount' = failureCount + 1
    /\ successCount' = successCount
    /\ fi' = fi
    /\ IF ci < Len(gen.tests[fi].Cases) THEN pc' = "derive" /\ ci' = ci + 1 ELSE pc' = "emit"

\* C2 as claimed: for every case with no wanted error, success only with
\* exactly one plan module and exactly one result set, every other plan
\* count, result count or evaluation error marks the case as failed, and no
\* step of evaluating a case crashes the run.
C2_Original ==
    /\ C2_OutcomeMatchesCounts
    /\ \A p \in AllCases : ~Wanted(CaseAt(p)) => ObsAt(p).evald # "panic"

\* C2 as amended: for every case with no wanted error, success only with
\* exactly one plan module and exactly one result set; every other plan
\* count, result count or evaluation error counts one failure and the run
\* goes on with the next case; evaluating a case aborts the run only where
\* eval panics, on an input term that does not parse.
C2_FailuresAreCountedNotFatal ==
    [][ /\ C2_OutcomeMatchesCounts'
        /\ (pc \in {"build", "eval", "decode"} /\ ~Wanted(CurrentCase) /\ trace'[fi][ci] \in FailTags)
              => FailedStepContinues
        /\ (pc = "eval" /\ pc' = "panic")
              => (obs'[fi][ci].evald = "panic" /\ CurrentCase.InputTerm = "bad") ]_vars

C2_Witness ==
    /\ \E p \in AllCases : ~Wanted(CaseAt(p)) /\ TagAt(p) = "resultCount"
    /\ \E p \in AllCases : ~Wanted(CaseAt(p)) /\ TagAt(p) = "success"
    /\ pc = "done"

\* C3: when compiler.Build returns an error for a case, the failure counter
\* goes up by exactly one, the case's record keeps a null plan and a null
\* want_plan_result, the loop goes on with the other cases of the file, and
\* the file that is then written holds all of its cases.
C3_CompileErrorIsNonFatal ==
    [][ /\ (pc = "build" /\ trace'[fi][ci] = "buildErr") =>
              /\ FailedStepContinues
              /\ gen'.tests[fi].Cases[ci].Plan = Null
              /\ gen'.tests[fi].Cases[ci].WantPlanResult = Null
              /\ gen'.writes = gen.writes
        /\ (pc = "emit" /\ emitTrace'[fi] = "written") =>
              /\ Len(gen'.writes) = Len(gen.writes) + 1
              /\ gen'.writes[Len(gen'.writes)].data.cases = gen.tests[fi].Cases
              /\ Len(gen.tests[fi].Cases) = Len(disk[fi].cases)
              /\ \A j \in 1..Len(disk[fi].cases) :
                    /\ trace[fi][j] # "none"
                    /\ trace[fi][j] = "buildErr" =>
                         /\ gen'.writes[Len(gen'.writes)].data.cases[j].Plan = Null
                         /\ gen'.writes[Len(gen'.writes)].data.cases[j].WantPlanResult = Null ]_vars

C3_Witness ==
    \E i \in 1..Len(gen.tests) :
        /\ emitTrace[i] = "written"
        /\ Len(trace[i]) = 2
        /\ trace[i][1] = "buildErr"
        /\ trace[i][2] = "success"
        /\ \E k \in 1..Len(gen.writes) : gen.writes[k].data.cases = gen.tests[i].Cases

\* C4 as claimed: at the final tally every loaded case has been counted
\* exactly once, as a success or as a failure, and successCount +
\* failureCount is the number of loaded cases.
C4_Original ==
    pc = "done" =>
        /\ \A p \in AllCases : TagAt(p) \in FailTags \cup {"success"}
        /\ successCount + failureCount = Cardinality(AllCases)

\* C4 as amended: at the final tally every loaded case that has a module has
\* been counted exactly once, as a success (its plan is set) or as a
\* failure; a case without modules is skipped and counted as neither; every
\* file whose marshalling or writing failed adds one failure.
C4_TallyCountsCasesWithModules ==
    pc = "done" =>
        /\ \A p \in AllCases :
              /\ TagAt(p) \in FailTags \cup {"success", "noModules"}
              /\ TagAt(p) = "noModules" <=> Len(CaseAt(p).Modules) = 0
              /\ TagAt(p) = "success" <=> CaseAt(p).Plan # Null
        /\ successCount = Cardinality({p \in AllCases : TagAt(p) = "success"})
        /\ failureCount =
              Cardinality({p \in AllCases : TagAt(p) \in FailTags})
              + Cardinality({i \in 1..Len(disk) : emitTrace[i] \in {"marshalErr", "writeErr"}})

C4_Witness ==
    /\ pc = "done"
    /\ \E p \in AllCases : TagAt(p) = "noModules"
    /\ \E p \in AllCases : TagAt(p) = "success"
    /\ \E i \in 1..Len(disk) : emitTrace[i] = "writeErr"

\* C5: loadTests ends, by returning or by panicking, before the first case
\* is processed: no case is processed before every file is loaded, and when
\* some file of the tree fails to load no case is ever compiled or evaluated
\* and nothing is written.
C5_LoadFailureAbortsRun ==
    LET untouched ==
            /\ \A i \in 1..Len(disk) :
                  /\ emitTrace[i] = "none"
                  /\ \A j \in 1..Len(disk[i].cases) : trace[i][j] = "none" /\ obs[i][j] = ObsInit
            /\ gen.writes = <<>>
            /\ successCount = 0 /\ failureCount = 0
    IN
    /\ (\E i \in 1..Len(disk) : ~disk[i].readable) => (pc \in {"load", "panic"} /\ untouched)
    /\ ~untouched => Len(gen.tests) = Len(disk)
    /\ pc \notin {"load", "panic"} => Len(gen.tests) = Len(disk)

C5_Witness ==
    /\ pc = "panic"
    /\ Len(disk) = 2
    /\ Len(gen.tests) = 1
    /\ Len(gen.tests[1].Cases) > 0
    /\ ~disk[2].readable

\* The file name with only a trailing ".yaml" rewritten to ".json".
TrailingExtensionReplaced(name) ==
    IF HasSuffix(name, S_yaml) THEN SubSeq(name, 1, Len(name) - Len(S_yaml)) \o S_json ELSE name

\* C6: every file that is written goes to <destination root>/<second-to-last
\* segment of the source path>/<last segment with only its trailing source
\* extension replaced by .json>.
C6_DestinationMirrorsLastTwoSegments ==
    \A i \in 1..Len(gen.tests) :
        emitTrace[i] = "written" =>
            LET segs == Split(disk[i].path, S_slash)
                dest == JoinPath(JoinPath(dstPath, segs[Len(segs) - 1]),
                                 TrailingExtensionReplaced(segs[Len(segs)]))
            IN \E k \in 1..Len(gen.writes) : gen.writes[k].path = dest

\* C7: two runs over the same tree, given the same answers by the engine and
\* the file system, hold the same records, the same counters and the same
\* files written after every step, and so at the end.
C7_RunsAgree ==
    /\ gen.tests = twin.tests
    /\ gen.writes = twin.writes
    /\ gen.successCount = twin.successCount
    /\ gen.failureCount = twin.failureCount

C7_Witness ==
    /\ pc = "done"
    /\ \E k \in 1..Len(gen.writes) :
          \E j \in 1..Len(gen.writes[k].data.cases) : Len(gen.writes[k].data.cases[j].EntryPoints) > 2
    /\ gen.writes = twin.writes

RECURSIVE Join(_, _)
Join(segs, sep) ==
    IF segs = <<>> THEN <<>>
    ELSE IF Len(segs) = 1 THEN Head(segs)
    ELSE Head(segs) \o sep \o Join(Tail(segs), sep)

\* The indices 0..n-1 of the modules, by bytewise order of their keys mod_i.
LexOrder(n) ==
    [r \in 1..n |->
        CHOOSE i \in 0..(n - 1) :
            Cardinality({j \in 0..(n - 1) : StrLess(ModKey(j), ModKey(i))}) = r - 1]

\* The package path below the data root, its segments joined by "/".
PathBelowRoot(pkg, sep) == Join(Tail(Split(pkg, S_dot)), sep)

ExpectedEntryPoints(mods) ==
    LET ord == LexOrder(Len(mods))
        RECURSIVE Pick(_)
        Pick(r) ==
            IF r > Len(mods) THEN <<>>
            ELSE (IF mods[ord[r] + 1].rules > 0
                  THEN <<PathBelowRoot(mods[ord[r] + 1].pkg, S_slash)>>
                  ELSE <<>>) \o Pick(r + 1)
    IN Pick(1)

\* The entry points expected of each case of CaseSet.
ExpectedByCase == [tc \in CaseSet |-> ExpectedEntryPoints(tc.Modules)]

\* The cases whose entry points have been derived.
Derived(p) ==
    \/ TagAt(p) \notin {"none", "noModules", "parsePanic"}
    \/ (p = <<fi, ci>> /\ pc \in {"build", "eval", "decode"})

\* C8: EntryPoints holds one identifier for each module that has a rule and
\* none for a module without rules, in the bytewise order of the keys
\* mod_0, mod_1, ...; each is the package path without its leading "data."
\* and with "/" for every "."; deriving them never changes a counter.
C8_EntryPointsPerModuleWithRules ==
    [][ /\ \A p \in AllCases' :
              Derived(p)' => CaseAt(p)'.EntryPoints = ExpectedByCase[disk[p[1]].cases[p[2]]]
        /\ pc = "derive" => (failureCount' = failureCount /\ successCount' = successCount) ]_vars

C8_Witness ==
    /\ \E p \in AllCases :
          /\ CaseAt(p).Modules = <<ModLib, ModAllow>>
          /\ TagAt(p) = "success"
          /\ CaseAt(p).EntryPoints = << <<"e", "x", "a", "m", "p", "l", "e", "/", "a", "l", "l", "o", "w">> >>
    /\ failureCount = 0

S_example_allow == <<"e", "x", "a", "m", "p", "l", "e", "_", "a", "l", "l", "o", "w">>

S_data_example_allow == <<"d", "a", "t", "a", "_", "e", "x", "a", "m", "p", "l", "e", "_", "a", "l", "l", "o", "w">>

\* The scenario of C9: one module, package data.example.allow, no input.
IsAllowScenario(tc) == tc.Modules = <<ModAllow>> /\ tc.InputTerm = "nil" /\ ~Wanted(tc)

\* C9 as claimed: in the scenario the entry point is example/allow, the query
\* is `example_allow = data.example.allow` and want_plan_result has the only
\* key example_allow; in general each result key is the entry point with its
\* separators flattened to underscores.
C9_Original ==
    /\ (pc = "eval" /\ IsAllowScenario(CurrentCase)) =>
          /\ CurrentCase.EntryPoints = << <<"e", "x", "a", "m", "p", "l", "e", "/", "a", "l", "l", "o", "w">> >>
          /\ createQuery(gen.packageNames) = << [var |-> S_example_allow, ref |-> ModAllow.pkg] >>
    /\ \A p \in AllCases :
          (TagAt(p) = "success" /\ ~Wanted(CaseAt(p))) =>
              /\ CaseAt(p).WantPlanResult.keys =
                    {ReplaceAll(CaseAt(p).EntryPoints[i], S_slash, S_underscore) :
                        i \in 1..Len(CaseAt(p).EntryPoints)}
              /\ IsAllowScenario(CaseAt(p)) => CaseAt(p).WantPlanResult.keys = {S_example_allow}

\* C9 as amended: in the scenario the entry point is example/allow, the query
\* is `data_example_allow = data.example.allow` and want_plan_result has the
\* only key data_example_allow; in general each result key is the whole
\* package path, data root included, with its separators flattened to
\* underscores.
C9_QueryVariableKeepsDataRoot ==
    /\ (pc = "eval" /\ IsAllowScenario(CurrentCase)) =>
          /\ CurrentCase.EntryPoints = << <<"e", "x", "a", "m", "p", "l", "e", "/", "a", "l", "l", "o", "w">> >>
          /\ createQuery(gen.packageNames) = << [var |-> S_data_example_allow, ref |-> ModAllow.pkg] >>
    /\ \A p \in AllCases :
          (TagAt(p) = "success" /\ ~Wanted(CaseAt(p))) =>
              /\ CaseAt(p).WantPlanResult.keys =
                    {<<"d", "a", "t", "a", "_">> \o ReplaceAll(CaseAt(p).EntryPoints[i], S_slash, S_underscore) :
                        i \in 1..Len(CaseAt(p).EntryPoints)}
              /\ IsAllowScenario(CaseAt(p)) => CaseAt(p).WantPlanResult.keys = {S_data_example_allow}

C9_Witness ==
    \E p \in AllCases :
        /\ IsAllowScenario(CaseAt(p))
        /\ TagAt(p) = "success"
        /\ CaseAt(p).WantPlanResult = [t |-> "map", keys |-> {S_data_example_allow}]

\* What Run may answer with an error such that nothing else in eval fails.
RunErrOutcomes ==
    {ev \in EvalOutcomes : ev.runErr /\ ~ev.compileErr /\ ev.qrs <= 1 /\ ~ev.jsonErr}

\* C10: an error of the query evaluation fails a case only when the case
\* declares neither a wanted error nor a wanted error code: eval returns the
\* error for such a case and the case is counted as failed; for a case that
\* declares either, eval swallows the error, and no such case is ever failed
\* by the evaluation.
C10_EvalErrorFailsOnlyUnwanted ==
    /\ \A p \in AllCases : TagAt(p) = "evalErr" => ~Wanted(CaseAt(p))
    /\ \A p \in AllCases : Wanted(CaseAt(p)) => TagAt(p) \notin {"evalErr", "resultCount", "evalPanic"}
    /\ pc = "eval" =>
          \A ev \in RunErrOutcomes :
              /\ CurrentCase.InputTerm # "bad" => eval(gen.packageNames, CurrentCase, ev).err
              /\ \A w \in {<<TRUE, FALSE>>, <<FALSE, TRUE>>, <<TRUE, TRUE>>} :
                    LET tc == [CurrentCase EXCEPT !.WantError = w[1], !.WantErrorCode = w[2], !.InputTerm = "nil"]
                    IN ~eval(gen.packageNames, tc, ev).err

C10_Witness ==
    /\ \E p \in AllCases : TagAt(p) = "evalErr" /\ ~Wanted(CaseAt(p)) /\ ObsAt(p).evald = "err"
    /\ \E p \in AllCases : Wanted(CaseAt(p)) /\ TagAt(p) = "success"

\* The index of the source file a written record was loaded from.
FileOf(rec) == CHOOSE i \in 1..Len(disk) : disk[i].path = rec.Filename

\* How the case behind the j-th record of a written file was counted.
CountedAs(data, j) == trace[FileOf(data.cases[j])][j]

\* C11: in every written output record, plan is non-null if and only if the
\* case was counted as a success, and want_plan_result is non-null only for a
\* case counted as a success: no record of a failed case carries a
\* want_plan_result without a plan.
C11_DerivedFieldsMatchCount ==
    \A k \in 1..Len(gen.writes) :
        \A j \in 1..Len(gen.writes[k].data.cases) :
            LET rec == gen.writes[k].data.cases[j]
                counted == CountedAs(gen.writes[k].data, j)
            IN /\ rec.Plan # Null <=> counted = "success"
               /\ rec.WantPlanResult # Null => counted = "success"
               /\ counted \in FailTags => (rec.WantPlanResult = Null /\ rec.Plan = Null)

\* C12: every Test returned by loadTests, also one of a file without cases,
\* has its filename set to the path of its source file, so the destination is
\* never derived from fewer than two path segments and every file that is
\* written goes under the directory named after its own group.
C12_FilenameAlwaysStamped ==
    /\ \A i \in 1..Len(gen.tests) : gen.tests[i].filename = disk[i].path
    /\ \A i \in 1..Len(disk) : emitTrace[i] # "indexPanic"
    /\ \A i \in 1..Len(disk) :
          emitTrace[i] = "written" =>
              LET segs == Split(disk[i].path, S_slash) IN
              \E k \in 1..Len(gen.writes) :
                  HasPrefix(gen.writes[k].path, JoinPath(dstPath, segs[Len(segs) - 1]) \o S_slash)

====
